---- MODULE Spec2Model ----
(***************************************************************************)
(* Iran aftershock forecast: the Streamlit forecast script                 *)
(* (src/aftershock_etas.py) and the validation script (src/test_etas.py).  *)
(*                                                                         *)
(* Numbers.  Floats are fixed-point integers: magnitudes, K, c, p, b,      *)
(* rates and lambda in thousandths (S), probabilities in ten-thousandths   *)
(* (PS), forecast cells in tenths of a percent, times in whole days,       *)
(* latitudes in whole degrees, distances in metres.  exp, log and ** are   *)
(* computed by series, so every formula of the source is evaluated, to     *)
(* about three decimal places.  A float that is infinite is the record     *)
(* InfB (only the b-value can be).                                         *)
(*                                                                         *)
(* Catalogs.  A catalog is a bag of events: rows with equal (lat, mag,     *)
(* time) are interchangeable in every computation of the two scripts.      *)
(* All events and epicenters lie on the meridian of the default longitude  *)
(* (src/aftershock_etas.py:115), where haversine reduces to R * |dlat|.    *)
(***************************************************************************)
EXTENDS Integers, Sequences, FiniteSets, Bags, TLC

S == 10 ^ 3
PS == 10 ^ 4

Abs(x) == IF x < 0 THEN -x ELSE x
Min(a, b) == IF a <= b THEN a ELSE b

\* a / b rounded to the nearest integer (b > 0)
RDiv(a, b) == (2 * a + b) \div (2 * b)

\* Python round(): to the nearest, ties to even (a / b, b > 0)
RoundHalfEven(a, b) ==
  LET q == a \div b
      r == a % b
  IN  IF 2 * r < b THEN q
      ELSE IF 2 * r > b THEN q + 1
      ELSE IF q % 2 = 0 THEN q ELSE q + 1

SeriesTerms == 12

\* sum of the Taylor series of e^(sg*f/s) from term k on; term = (sg*f/s)^(k-1)/(k-1)!
RECURSIVE ExpSeries(_, _, _, _, _)
ExpSeries(f, s, sg, term, k) ==
  IF k > SeriesTerms \/ term = 0 THEN 0
  ELSE term + ExpSeries(f, s, sg, RDiv(sg * term * f, k * s), k + 1)

\* e^(sg*f/s) for 0 <= f <= s, in units of 1/s
ExpFrac(f, s, sg) == ExpSeries(f, s, sg, s, 1)

\* v * e^(sg*n) for a whole n >= 0
RECURSIVE ExpWhole(_, _, _, _)
ExpWhole(v, n, s, sg) ==
  IF n = 0 \/ v = 0 THEN v
  ELSE ExpWhole(RDiv(v * ExpFrac(s, s, sg), s), n - 1, s, sg)

\* math.exp(x / s) in units of 1/s
Exp(x, s) ==
  LET sg == IF x < 0 THEN -1 ELSE 1
      a  == Abs(x)
  IN  ExpWhole(ExpFrac(a % s, s, sg), a \div s, s, sg)

\* the series 2 * atanh(z / LS) of a logarithm, in units of 1/LS
LS == 10 ^ 4
LnSeries(z) ==
  LET z2 == RDiv(z * z, LS)
      z3 == RDiv(z * z2, LS)
      z5 == RDiv(z3 * z2, LS)
      z7 == RDiv(z5 * z2, LS)
  IN  RDiv(2 * (105 * z + 35 * z3 + 21 * z5 + 15 * z7), 105)

\* ln(x / S) in units of 1/LS (x > 0): ln(2^k * m) = k * ln 2 + ln m, S <= m < 2S,
\* ln m = 2 * atanh((m - S) / (m + S))
RECURSIVE LnFine(_)
LnFine(x) ==
  IF x >= 2 * S THEN LnSeries(LS \div 3) + LnFine(RDiv(x, 2))
  ELSE IF x < S THEN LnFine(2 * x) - LnSeries(LS \div 3)
  ELSE LnSeries(RDiv((x - S) * LS, x + S))

\* math.log(x / S) in thousandths (x > 0)
Ln(x) == RDiv(LnFine(x), LS \div S)

\* (x / S) ** (y / S) in thousandths (x > 0)
Pow(x, y) == Exp(RDiv(y * Ln(x), S), S)

\* 10 ** (z / S) in thousandths
Pow10(z) == Exp(RDiv(z * Ln(10 * S), S), S)

\* a * b / S for scaled a, b >= 0, without forming a * b when a is large
MulS(a, b) == (a \div S) * b + RDiv((a % S) * b, S)

(***************************************************************************)
(* Bounds of the model                                                     *)
(***************************************************************************)
MaxKinds == 2
MaxClock == 2
GridSteps == 2

(***************************************************************************)
(* Constants of src/aftershock_etas.py                                     *)
(***************************************************************************)
M0 == 4500
ALPHA == 900
DEFAULT_RADIUS_KM == 250
TIME_WINDOWS == <<1, 7, 30>>
MAG_THRESHOLDS == <<5000, 5500, 6000, 6500>>
MAX_PROB == 9700

\* a float of the b-value: finite (v, in thousandths) or +inf
FiniteB(v) == [inf |-> FALSE, v |-> v]
InfB == [inf |-> TRUE, v |-> 0]

(***************************************************************************)
(* Data frames: bags of events [lat, mag, time]                            *)
(***************************************************************************)
EventLats == {35, 38}
EventMags == {4500, 6500}
EventTimes == {1, 2}
Counts == {1, 25}
Kinds == [lat : EventLats, mag : EventMags, time : EventTimes]
Catalogs ==
  UNION {[K -> Counts] : K \in {K \in SUBSET Kinds : Cardinality(K) <= MaxKinds}}

\* df[mask]
Filter(df, P(_)) == [e \in {e \in DOMAIN df : P(e)} |-> df[e]]
\* len(df)
Len0(df) == BagCardinality(df)

RECURSIVE SumOver(_, _)
SumOver(f, D) ==
  IF D = {} THEN 0
  ELSE LET x == CHOOSE x \in D : TRUE IN f[x] + SumOver(f, D \ {x})

(***************************************************************************)
(* src/aftershock_etas.py: utilities                                       *)
(***************************************************************************)
\* haversine for lon1 = lon2, in metres: a = sin(dlat/2)^2, so
\* 2 R arctan2(sqrt a, sqrt(1 - a)) = R |dlat| (dlat in radians)
haversine(lat1, lat2) ==
  LET R == 6371
      pi4 == 31416
  IN  RDiv(R * pi4, 180 * 10) * Abs(lat2 - lat1)

\* d <= radius_km, d in metres
WithinKm(d, radius_km) == d <= radius_km * 1000

\* K / ((c + t) ** p), t in whole days
omori_rate(t, K, c, p) == RDiv(K * S, Pow(c + t * S, p))

\* K / (1 - p) * ((c + T) ** (1 - p) - c ** (1 - p)), for p # 1
OmoriAntiderivative(K, c, p, T) ==
  LET diff == Pow(c + T * S, S - p) - Pow(c, S - p)
      den  == S - p
      sg   == IF den < 0 THEN -1 ELSE 1
      coef == RDiv(K * 100, sg * den)
  IN  RDiv(coef * sg * diff, 100)

integrate_omori(K, c, p, T) ==
  IF T <= 0 \/ K <= 0 THEN 0
  ELSE IF p = S THEN RDiv(K * (Ln(c + T * S) - Ln(c)), S)
  ELSE OmoriAntiderivative(K, c, p, T)

B_MIN_COUNT == 30
\* 0.4343 / (mags.mean() - Mmin): numpy's float division, inf at a zero divisor
AkiQuotient(mags, Mmin) ==
  LET n    == Len0(mags)
      excess == SumOver([e \in DOMAIN mags |-> (e.mag - Mmin) * mags[e]], DOMAIN mags)
  IN  IF excess = 0 THEN InfB ELSE FiniteB(RDiv(4343 * n * 100, excess))

aki_b_value(mags, Mmin) ==
  LET kept == Filter(mags, LAMBDA e : e.mag >= Mmin)
  IN  IF Len0(kept) < B_MIN_COUNT THEN FiniteB(S) ELSE AkiQuotient(kept, Mmin)

\* 10 ** (-b * (Mthr - M0)); 10 ** -inf = 0.0
TailPower(Mthr, b) ==
  IF b.inf THEN 0 ELSE Pow10(-RDiv(b.v * (Mthr - M0), S))

gr_tail_prob(Mthr, b) == IF Mthr <= M0 THEN S ELSE TailPower(Mthr, b)

(***************************************************************************)
(* Regional selection                                                      *)
(***************************************************************************)
select_region(df, lat, radius_km) ==
  Filter(df, LAMBDA e : WithinKm(haversine(lat, e.lat), radius_km))

(***************************************************************************)
(* Fit of the Omori parameters                                             *)
(***************************************************************************)
\* df[df["time"] > t0]
After(df, t0) == Filter(df, LAMBDA e : e.time > t0)

\* (df["time"] - t0) in days: the bag of the offsets
DaysSince(df, t0) ==
  [d \in {e.time - t0 : e \in DOMAIN df} |->
     SumOver(df, {e \in DOMAIN df : e.time - t0 = d})]

\* np.histogram(days, bins=np.arange(0, 31)): 30 bins [i-1, i), the last one closed
Bins == 30
InBin(d, i) == (i - 1 <= d /\ d < i) \/ (i = Bins /\ d = Bins)
RECURSIVE HistogramTo(_, _)
HistogramTo(days, i) ==
  IF i = 0 THEN <<>>
  ELSE Append(HistogramTo(days, i - 1),
              SumOver(days, {d \in DOMAIN days : InBin(d, i)}))
Histogram(days) == HistogramTo(days, Bins)

\* scipy's curve_fit(omori_rate, t, hist, bounds=(lo, hi)), t = 1..len(hist):
\* the least-squares point of the box, searched on a grid of the box
Axis(l, h) == {l + RDiv((h - l) * i, GridSteps) : i \in 0..GridSteps}
Grid(lo, hi) == Axis(lo[1], hi[1]) \X Axis(lo[2], hi[2]) \X Axis(lo[3], hi[3])

FIT_LO == <<50, 10, 800>>
FIT_HI == <<10000, 5000, 1600>>

\* omori_rate(t, *g) for t = 1..n, as a tuple
RECURSIVE ModelCurve(_, _)
ModelCurve(g, n) ==
  IF n = 0 THEN <<>> ELSE Append(ModelCurve(g, n - 1), omori_rate(n, g[1], g[2], g[3]))

RECURSIVE SquaredResiduals(_, _, _)
SquaredResiduals(curve, hist, t) ==
  IF t > Bins THEN 0
  ELSE LET r == RDiv(curve[t] - hist[t] * S, 10)
       IN  r * r + SquaredResiduals(curve, hist, t + 1)

LeastSquares(hist, curves) ==
  LET scored == {<<c[1], SquaredResiduals(c[2], hist, 1)>> : c \in curves}
  IN  (CHOOSE g \in scored : \A h \in scored : g[2] <= h[2])[1]

\* every instant a script takes as t0, and every bag of offsets it can histogram
Instants == (0..MaxClock) \cup EventTimes
DayBags == {DaysSince(After(df, t0), t0) : df \in Catalogs, t0 \in Instants}

\* the model curve at each grid point of the forecast's box, and the
\* least-squares point for each bag of offsets (@@ makes TLC tabulate a function once)
Curves == {<<g, ModelCurve(g, Bins)>> : g \in Grid(FIT_LO, FIT_HI)}
Fits == [days \in DayBags |-> LeastSquares(Histogram(days), Curves)] @@ <<>>

\* curve_fit returns popt, or raises when the solver does not converge
curve_fit(days, converges) ==
  IF converges THEN [raised |-> FALSE, popt |-> Fits[days]]
  ELSE [raised |-> TRUE, popt |-> <<>>]

FIT_MIN_COUNT == 20
FALLBACK == <<300, 300, 1100>>

\* fit_omori with the guard of line 86 dropped: the solver runs on any sample
fit_omori_unguarded(df, t0, converges) ==
  LET fit == curve_fit(DaysSince(After(df, t0), t0), converges)
  IN  IF fit.raised THEN [path |-> "except", popt |-> FALLBACK]
      ELSE [path |-> "fitted", popt |-> fit.popt]

\* fit_omori's return value is popt; path records which return statement ran
fit_omori(df, t0, converges) ==
  LET after == After(df, t0)
      fit   == curve_fit(DaysSince(after, t0), converges)
  IN  IF Len0(after) < FIT_MIN_COUNT
      THEN [path |-> "insufficient", popt |-> FALLBACK]
      ELSE IF fit.raised THEN [path |-> "except", popt |-> FALLBACK]
      ELSE [path |-> "fitted", popt |-> fit.popt]

(***************************************************************************)
(* Run model and forecast loop                                             *)
(***************************************************************************)
\* K0 * (10 ** (ALPHA * (mag - 6.0)))
Productivity(K0, mag) == MulS(K0, Pow10(RDiv(ALPHA * (mag - 6000), S)))

\* 1 - math.exp(-lam), in ten-thousandths
Exceedance(lam) == PS - Exp(-(lam * (PS \div S)), PS)

\* the cell's probability left as computed
SaturateOmitted(prob) == prob

\* min(prob, MAX_PROB)
Saturate(prob) == Min(prob, MAX_PROB)

\* {1: "1 Day", 7: "1 Week", 30: "1 Month"}[T]: KeyError for any other T
WindowLabels == (1 :> "1 Day") @@ (7 :> "1 Week") @@ (30 :> "1 Month")

\* lines 145-155, one pass of the inner loop: the row appended, or the KeyError.
\* T, lam and expArg record the locals T, lam and the argument of math.exp
ForecastCell(base_rate, b, T, Mthr) ==
  LET lam  == MulS(base_rate, gr_tail_prob(Mthr, b))
      prob == Saturate(Exceedance(lam))
  IN  IF T \notin DOMAIN WindowLabels THEN [raised |-> TRUE]
      ELSE [raised |-> FALSE,
            row |-> [Window |-> WindowLabels[T], Magnitude |-> Mthr,
                     Probability |-> RoundHalfEven(prob, 10),
                     T |-> T, lam |-> lam, expArg |-> lam]]

\* the inner loop over MAG_THRESHOLDS, up to the first exception
RECURSIVE ThresholdLoop(_, _, _, _, _, _)
ThresholdLoop(base_rate, b, T, thresholds, j, rows) ==
  IF j > Len(thresholds) THEN [raised |-> FALSE, rows |-> rows]
  ELSE LET cell == ForecastCell(base_rate, b, T, thresholds[j])
       IN  IF cell.raised THEN [raised |-> TRUE, rows |-> rows]
           ELSE ThresholdLoop(base_rate, b, T, thresholds, j + 1, Append(rows, cell.row))

\* the outer loop over TIME_WINDOWS
RECURSIVE ForecastLoop(_, _, _, _, _, _, _, _)
ForecastLoop(K, c, p, b, windows, thresholds, i, rows) ==
  IF i > Len(windows) THEN [raised |-> FALSE, rows |-> rows]
  ELSE LET base_rate == integrate_omori(K, c, p, windows[i])
           inner == ThresholdLoop(base_rate, b, windows[i], thresholds, 1, rows)
       IN  IF inner.raised THEN inner
           ELSE ForecastLoop(K, c, p, b, windows, thresholds, i + 1, inner.rows)

\* lines 134-155 for the configured grid
Forecast(popt, mag, b) ==
  ForecastLoop(Productivity(popt[1], mag), popt[2], popt[3], b,
               TIME_WINDOWS, MAG_THRESHOLDS, 1, <<>>)

Mags == {6200, 7500}
\* the forecast for every (popt, mag, b_val) a run can reach (evaluated once)
Forecasts ==
  [popt \in {FALLBACK} \cup {Fits[days] : days \in DayBags}, mag \in Mags,
   b \in {aki_b_value(df, M0) : df \in Catalogs} |-> Forecast(popt, mag, b)] @@ <<>>

\* lines 125-155 for one press of "Run Forecast"
RunModel(df, lat, mag, main_time, converges) ==
  LET regional == select_region(df, lat, DEFAULT_RADIUS_KM)
      b_val    == aki_b_value(regional, M0)
      fit      == fit_omori(regional, main_time, converges)
      loop     == Forecasts[fit.popt, mag, b_val]
  IN  [lat |-> lat, mag |-> mag, regional |-> regional, b_val |-> b_val,
       path |-> fit.path, popt |-> fit.popt,
       raised |-> loop.raised, rows |-> loop.rows]

(***************************************************************************)
(* The forecast application: one Streamlit session                         *)
(***************************************************************************)
VARIABLES
  catalog,    \* the rows of the CSV file at csv_path
  cache,      \* st.cache_data of load_catalog: <<>> or <<the frame loaded>>
  clock,      \* wall-clock time, in days
  converges,  \* whether scipy's solver converges in this session
  widgets,    \* the sidebar's number inputs
  out,        \* what the last run of the script computed (NoOut: st.stop())
  last,       \* history: the completed forecast before out
  val,        \* the validation script's locals
  fn          \* a direct call of one function: its arguments and result

vars == <<catalog, cache, clock, converges, widgets, out, last, val, fn>>

NoOut == [raised |-> FALSE, rows |-> <<>>, path |-> "none"]
Idle == [pc |-> "idle"]

EpiLats == {35, 36}

\* load_catalog under @st.cache_data: the file is read on a miss only
load_catalog(file, store) == IF store = <<>> THEN file ELSE store[1]

Completed(o) == o.path # "none" /\ ~o.raised

Init ==
  /\ catalog \in Catalogs
  /\ cache = <<>>
  /\ clock = 0
  /\ converges \in BOOLEAN
  /\ widgets = [lat |-> 36, mag |-> 6200]
  /\ out = NoOut
  /\ last = NoOut
  /\ val = Idle
  /\ fn = Idle

\* a number input changes: the script reruns with run = False and stops at line 120
EditInput(lat, mag) ==
  /\ widgets # [lat |-> lat, mag |-> mag]
  /\ widgets' = [lat |-> lat, mag |-> mag]
  /\ out' = NoOut
  /\ last' = IF Completed(out) THEN out ELSE last
  /\ UNCHANGED <<catalog, cache, clock, converges, val, fn>>

\* "Run Forecast" is pressed: the script runs to its end
PressRun ==
  /\ cache' = <<load_catalog(catalog, cache)>>
  /\ out' = RunModel(cache'[1], widgets.lat, widgets.mag, clock, converges)
  /\ last' = IF Completed(out) THEN out ELSE last
  /\ UNCHANGED <<catalog, clock, converges, widgets, val, fn>>

Tick ==
  /\ clock < MaxClock
  /\ clock' = clock + 1
  /\ UNCHANGED <<catalog, cache, converges, widgets, out, last, val, fn>>

Next ==
  \/ \E lat \in EpiLats, mag \in Mags : EditInput(lat, mag)
  \/ PressRun
  \/ Tick

Spec == Init /\ [][Next]_vars

(***************************************************************************)
(* src/test_etas.py: the validation script                                 *)
(***************************************************************************)
N_MAINSHOCKS == 20
RADIUS_KM == 250
TARGET_MAG == 5000
VAL_TIME_WINDOWS == <<1, 7, 30>>
PROB_THRESHOLD == 5000
VAL_B_MIN_COUNT == 20
VAL_ALPHA == 600
LAMBDA_CAP == 2000
VAL_FIT_LO == <<10, 10, 800>>
VAL_FIT_HI == <<5000, 5000, 1500>>
VAL_FALLBACK == <<300, 500, 1100>>

\* integrate_omori of test_etas.py: no guard on T or K
val_integrate_omori(K, c, p, T) ==
  IF p = S THEN RDiv(K * (Ln(c + T * S) - Ln(c)), S)
  ELSE OmoriAntiderivative(K, c, p, T)

val_aki_b_value(mags, Mmin) ==
  LET kept == Filter(mags, LAMBDA e : e.mag >= Mmin)
  IN  IF Len0(kept) < VAL_B_MIN_COUNT THEN FiniteB(S) ELSE AkiQuotient(kept, Mmin)

gr_tail(Mthr, b) == IF Mthr <= M0 THEN S ELSE TailPower(Mthr, b)

\* lines 82-83: regional = df[dist <= RADIUS_KM]
val_regional(df, lat0) ==
  Filter(df, LAMBDA e : WithinKm(haversine(lat0, e.lat), RADIUS_KM))

\* line 86: after = regional[regional["time"] > t0]
val_after(regional, t0) == Filter(regional, LAMBDA e : e.time > t0)

ValCurves == {<<g, ModelCurve(g, Bins)>> : g \in Grid(VAL_FIT_LO, VAL_FIT_HI)}
ValFits == [days \in DayBags |-> LeastSquares(Histogram(days), ValCurves)] @@ <<>>

\* lines 92-103: the fit, with no minimum count
val_fit(after, t0, solved) ==
  IF solved THEN [path |-> "fitted", popt |-> ValFits[DaysSince(after, t0)]]
  ELSE [path |-> "except", popt |-> VAL_FALLBACK]

\* K0 * 10 ** (0.6 * (mag0 - 6.0))
val_productivity(K0, mag0) == MulS(K0, Pow10(RDiv(VAL_ALPHA * (mag0 - 6000), S)))

\* lam = min(lam, 2.0)
val_clamp(lam) == Min(lam, LAMBDA_CAP)

\* 1 - math.exp(-lam), in ten-thousandths
val_prob(lam) == PS - Exp(-(lam * (PS \div S)), PS)

\* the mask of line 118 with < : an event at the end of the window is missed
ObservedBeforeEnd(after, t0, T) ==
  \E e \in DOMAIN after : e.time < t0 + T /\ e.mag >= TARGET_MAG

\* lines 117-120: any((after["time"] <= t0 + timedelta(days=T)) & (after["mag"] >= TARGET_MAG))
Observed(after, t0, T) ==
  \E e \in DOMAIN after : e.time <= t0 + T /\ e.mag >= TARGET_MAG

\* sort_values("mag", ascending=False): kinds in an order of non-increasing magnitude
MagOrders(df) ==
  {q \in [1..Cardinality(DOMAIN df) -> DOMAIN df] :
     /\ \A i, j \in DOMAIN q : i < j => q[i] # q[j] /\ q[i].mag >= q[j].mag}

\* head(N_MAINSHOCKS): the kinds of the first N rows
RECURSIVE HeadRows(_, _, _, _)
HeadRows(df, q, i, n) ==
  IF i > Len(q) \/ n <= 0 THEN <<>>
  ELSE <<q[i]>> \o HeadRows(df, q, i + 1, n - df[q[i]])

\* lines 62-71: the catalog is read and the mainshocks are chosen.  Rows of one
\* kind give the same iteration: the loop below runs once for each kind.
ValStart ==
  /\ val.pc = "idle"
  /\ \E q \in MagOrders(catalog) :
       val' = [pc |-> "mainshock", df |-> catalog,
               queue |-> HeadRows(catalog, q, 1, N_MAINSHOCKS), results |-> <<>>]
  /\ UNCHANGED <<catalog, cache, clock, converges, widgets, out, last, fn>>

\* lines 76-106: the head of one iteration of the validation loop
ValMainshock ==
  /\ val.pc = "mainshock"
  /\ val.queue # <<>>
  /\ LET ms       == Head(val.queue)
         regional == val_regional(val.df, ms.lat)
         after    == val_after(regional, ms.time)
         fit      == val_fit(after, ms.time, converges)
     IN  val' = [pc |-> "window", df |-> val.df, queue |-> Tail(val.queue),
                 results |-> val.results, ms |-> ms, regional |-> regional,
                 after |-> after, b |-> val_aki_b_value(regional, M0),
                 path |-> fit.path, popt |-> fit.popt,
                 K |-> val_productivity(fit.popt[1], ms.mag), i |-> 1]
  /\ UNCHANGED <<catalog, cache, clock, converges, widgets, out, last, fn>>

\* lines 108-129: one pass of the loop over TIME_WINDOWS
ValWindow ==
  /\ val.pc = "window"
  /\ val.i <= Len(VAL_TIME_WINDOWS)
  /\ LET T    == VAL_TIME_WINDOWS[val.i]
         lam0 == MulS(val_integrate_omori(val.K, val.popt[2], val.popt[3], T),
                      gr_tail(TARGET_MAG, val.b))
         lam  == val_clamp(lam0)
         prob == val_prob(lam)
         predicted == prob >= PROB_THRESHOLD
         observed  == Observed(val.after, val.ms.time, T)
     IN  val' = [val EXCEPT
                   !.i = @ + 1,
                   !.results = Append(@,
                     [mainshock_mag |-> RoundHalfEven(val.ms.mag, 100),
                      window_days |-> T,
                      predicted_prob |-> RoundHalfEven(prob, 10),
                      predicted_event |-> predicted,
                      observed_event |-> observed,
                      correct |-> (predicted = observed),
                      ms |-> val.ms, lam |-> lam0, expArg |-> lam])]
  /\ UNCHANGED <<catalog, cache, clock, converges, widgets, out, last, fn>>

\* the loop over TIME_WINDOWS ends: the next mainshock, or the summary
ValNext ==
  /\ val.pc = "window"
  /\ val.i > Len(VAL_TIME_WINDOWS)
  /\ val' = [val EXCEPT !.pc = IF val.queue = <<>> THEN "summary" ELSE "mainshock"]
  /\ UNCHANGED <<catalog, cache, clock, converges, widgets, out, last, fn>>

\* an empty catalog: the loop body never runs, and line 138 raises KeyError on
\* the frame built from no rows
ValEmpty ==
  /\ val.pc = "mainshock"
  /\ val.queue = <<>>
  /\ val' = [val EXCEPT !.pc = "KeyError"]
  /\ UNCHANGED <<catalog, cache, clock, converges, widgets, out, last, fn>>

NextVal == ValStart \/ ValMainshock \/ ValWindow \/ ValNext \/ ValEmpty

SpecVal == Init /\ [][NextVal]_vars

(***************************************************************************)
(* Direct calls of the functions of src/aftershock_etas.py, one a session  *)
(***************************************************************************)
Radii == {-1, 0, DEFAULT_RADIUS_KM}
Windows == {-1, 0, 1, 7}
Thresholds == {4000, 4500, 5000}

\* select_region(df, lat, lon, radius_km) on the catalog
CallSelectRegion(lat, radius_km) ==
  /\ fn.pc = "idle"
  /\ fn' = [pc |-> "select_region", df |-> catalog, lat |-> lat,
            radius_km |-> radius_km,
            result |-> select_region(catalog, lat, radius_km)]
  /\ UNCHANGED <<catalog, cache, clock, converges, widgets, out, last, val>>

\* aki_b_value(regional["mag"].values, M0) on the catalog's magnitudes
CallAkiBValue ==
  /\ fn.pc = "idle"
  /\ fn' = [pc |-> "aki_b_value", mags |-> catalog, Mmin |-> M0,
            result |-> aki_b_value(catalog, M0)]
  /\ UNCHANGED <<catalog, cache, clock, converges, widgets, out, last, val>>

\* integrate_omori(K, c, p, T) at the fallback triple: the function has no raise
CallIntegrateOmori(T) ==
  /\ fn.pc = "idle"
  /\ fn' = [pc |-> "integrate_omori", T |-> T, raised |-> FALSE,
            result |-> integrate_omori(FALLBACK[1], FALLBACK[2], FALLBACK[3], T)]
  /\ UNCHANGED <<catalog, cache, clock, converges, widgets, out, last, val>>

\* gr_tail_prob(Mthr, b) with the catalog's b-value: the function has no raise
CallGrTailProb(Mthr) ==
  /\ fn.pc = "idle"
  /\ fn' = [pc |-> "gr_tail_prob", Mthr |-> Mthr, raised |-> FALSE,
            result |-> gr_tail_prob(Mthr, aki_b_value(catalog, M0))]
  /\ UNCHANGED <<catalog, cache, clock, converges, widgets, out, last, val>>

\* lines 139-155 for a grid of one window T and one threshold Mthr
CallForecast(T, Mthr) ==
  /\ fn.pc = "idle"
  /\ LET b    == aki_b_value(catalog, M0)
         K    == Productivity(FALLBACK[1], widgets.mag)
         loop == ForecastLoop(K, FALLBACK[2], FALLBACK[3], b, <<T>>, <<Mthr>>, 1, <<>>)
     IN  fn' = [pc |-> "forecast", T |-> T, Mthr |-> Mthr,
                base_rate |-> integrate_omori(K, FALLBACK[2], FALLBACK[3], T),
                tail |-> gr_tail_prob(Mthr, b),
                raised |-> loop.raised, rows |-> loop.rows]
  /\ UNCHANGED <<catalog, cache, clock, converges, widgets, out, last, val>>

NextFn ==
  \/ \E lat \in EpiLats, radius_km \in Radii : CallSelectRegion(lat, radius_km)
  \/ CallAkiBValue
  \/ \E T \in Windows : CallIntegrateOmori(T)
  \/ \E Mthr \in Thresholds : CallGrTailProb(Mthr)
  \/ \E T \in Windows, Mthr \in Thresholds : CallForecast(T, Mthr)

SpecFn == Init /\ [][NextFn]_vars

(***************************************************************************)
(* Properties                                                              *)
(***************************************************************************)
Ran(o) == o.path # "none"
Cells(o) == {o.rows[i] : i \in 1..Len(o.rows)}
GridSize == Len(TIME_WINDOWS) * Len(MAG_THRESHOLDS)
\* the cell of window i and threshold j in the table of a run
CellAt(o, i, j) == o.rows[(i - 1) * Len(MAG_THRESHOLDS) + j]

\* C1: after a run, the table has one cell for every (window, threshold) pair
\* of the grid, and every cell's percentage p satisfies 0 <= p <= 97.0
\* (Probability is in tenths of a percent).
C1_CellsWithinCeiling ==
  Ran(out) =>
    /\ ~out.raised
    /\ Len(out.rows) = GridSize
    /\ \A i \in 1..Len(TIME_WINDOWS), j \in 1..Len(MAG_THRESHOLDS) :
         /\ CellAt(out, i, j).Window = WindowLabels[TIME_WINDOWS[i]]
         /\ CellAt(out, i, j).Magnitude = MAG_THRESHOLDS[j]
         /\ CellAt(out, i, j).Probability \in 0..(MAX_PROB \div 10)

\* a run whose table has a cell at the ceiling because 1 - exp(-lam) is above it
C1_Witness ==
  /\ Ran(out)
  /\ \E r \in Cells(out) :
       r.Probability = MAX_PROB \div 10 /\ Exceedance(r.lam) > MAX_PROB

\* C2: aki_b_value on a sample with at least the minimum count of magnitudes
\* >= M0, all of them equal to M0, returns 1.0 and never infinity.
C2_DegenerateMeanFallsBack ==
  (/\ fn.pc = "aki_b_value"
   /\ Len0(Filter(fn.mags, LAMBDA e : e.mag >= fn.Mmin)) >= B_MIN_COUNT
   /\ \A e \in DOMAIN fn.mags : e.mag >= fn.Mmin => e.mag = fn.Mmin)
  => fn.result = FiniteB(S)

\* C3: select_region with radius_km <= 0 returns an empty subset.
C3_NonPositiveRadiusEmpty ==
  (fn.pc = "select_region" /\ fn.radius_km <= 0) => DOMAIN fn.result = {}

\* C4: a forecast request with a negative window or a threshold below M0 is
\* aborted with an error, and produces no cell.
C4_InvalidParameterAborts ==
  (fn.pc = "forecast" /\ (fn.T < 0 \/ fn.Mthr < M0))
  => (fn.raised /\ fn.rows = <<>>)

\* C5: two runs of fit_omori that end in different outcomes (fitted, too few
\* events, solver failure) return results that differ.
C5_OutcomesDistinguishable ==
  (Completed(out) /\ Completed(last) /\ out.path # last.path)
  => out.popt # last.popt

\* C6: for every mainshock, the validation loop's regional subset and (K0, c, p)
\* are those select_region and fit_omori give for the same catalog, location,
\* radius and t0.
C6_ValidationFollowsPipeline ==
  val.pc = "window" =>
    /\ val.regional = select_region(val.df, val.ms.lat, RADIUS_KM)
    /\ val.popt = fit_omori(val.regional, val.ms.time, converges).popt

\* the events of magnitude >= TARGET_MAG in the regional subset of r's mainshock
Targets(r) ==
  {e \in DOMAIN select_region(catalog, r.ms.lat, RADIUS_KM) : e.mag >= TARGET_MAG}

ValResults == IF val.pc = "idle" THEN {} ELSE {val.results[i] : i \in 1..Len(val.results)}

\* C7 as stated: observed_event is true iff the mainshock's regional subset has
\* an event of magnitude >= TARGET_MAG with time in the closed [t0, t0 + T].
C7_ObservedClosedInterval ==
  \A r \in ValResults :
    r.observed_event <=>
      \E e \in Targets(r) : r.ms.time <= e.time /\ e.time <= r.ms.time + r.window_days

\* C7 as amended: observed_event is true iff the mainshock's regional subset has
\* an event of magnitude >= TARGET_MAG with time in (t0, t0 + T]: later than t0.
C7_ObservedAfterOrigin ==
  \A r \in ValResults :
    r.observed_event <=>
      \E e \in Targets(r) : r.ms.time < e.time /\ e.time <= r.ms.time + r.window_days

\* a mainshock of magnitude >= TARGET_MAG with nothing qualifying after it, and
\* one with a qualifying event after it
C7_Witness ==
  /\ \E r \in ValResults :
       r.ms.mag >= TARGET_MAG /\ ~r.observed_event
  /\ \E r \in ValResults : r.observed_event

\* C8: in the forecast loop and in the validation loop, the argument of
\* 1 - exp(-x) is the intensity lam = integrated rate * tail fraction itself.
C8_IntensityNeverClamped ==
  /\ \A r \in Cells(out) : r.expArg = r.lam
  /\ \A r \in ValResults : r.expArg = r.lam

\* C9: two runs of one session with the same epicenter and magnitude (the
\* catalog, the radius and the grid are the session's) give the same table.
C9_ForecastIsAFunction ==
  (Completed(out) /\ Completed(last) /\ out.lat = last.lat /\ out.mag = last.mag)
  => out.rows = last.rows

\* C10: a run whose regional subset is empty uses b = 1.0 and (0.3, 0.3, 1.1),
\* raises nothing and has a probability in every cell of the grid.
C10_EmptyRegionFallsBack ==
  (Ran(out) /\ DOMAIN out.regional = {}) =>
    /\ out.b_val = FiniteB(S)
    /\ out.popt = FALLBACK
    /\ ~out.raised
    /\ Len(out.rows) = GridSize
    /\ \A r \in Cells(out) : r.Probability \in 0..(PS \div 10)

\* a run on a catalog that has events, none of them within the radius
C10_Witness ==
  /\ Ran(out)
  /\ DOMAIN out.regional = {}
  /\ DOMAIN catalog # {}
  /\ Len(out.rows) = GridSize

====
